---- MODULE Spec2Model ----
(***************************************************************************)
(* slang: a macro assembler for an unlimited register machine and the      *)
(* machine that runs the assembled program.                                *)
(*                                                                         *)
(* Source text is modelled as TLA+ strings, character by character: the    *)
(* regular expressions of program.rs are operators over strings that match *)
(* what the expressions match, and String::replace is a substring          *)
(* replacement.  Assembly (Program::from_file) advances one source line or *)
(* one macro template line per step, with the recursion of expand_macro    *)
(* kept as an explicit stack of frames; the machine (Machine::run)         *)
(* advances one instruction per step.                                      *)
(***************************************************************************)
EXTENDS Integers, Sequences, FiniteSets, TLC

\* ------------------------------------------------------------------------
\* Bounds of the model
\* ------------------------------------------------------------------------

\* Largest value of an x-register given on the command line.
MaxInput == 3

\* Largest number of instructions Machine::run is followed for.
MaxSteps == 150

\* ------------------------------------------------------------------------
\* Characters and strings
\* ------------------------------------------------------------------------

Digits == {"0", "1", "2", "3", "4", "5", "6", "7", "8", "9"}

LowerLetters ==
  {"a", "b", "c", "d", "e", "f", "g", "h", "i", "j", "k", "l", "m",
   "n", "o", "p", "q", "r", "s", "t", "u", "v", "w", "x", "y", "z"}

UpperLetters ==
  {"A", "B", "C", "D", "E", "F", "G", "H", "I", "J", "K", "L", "M",
   "N", "O", "P", "Q", "R", "S", "T", "U", "V", "W", "X", "Y", "Z"}

\* The class \w of the regular expressions (ASCII part).
WordChars == Digits \cup LowerLetters \cup UpperLetters \cup {"_"}

\* The label groups, the class [A-E].
GroupChars == {"A", "B", "C", "D", "E"}

At(s, i) == SubSeq(s, i, i)

Drop(s, n) == SubSeq(s, n + 1, Len(s))

StartsWith(s, p) == Len(s) >= Len(p) /\ SubSeq(s, 1, Len(p)) = p

\* Whether p occurs in s at position i.
OccursAt(s, p, i) == i + Len(p) - 1 <= Len(s) /\ SubSeq(s, i, i + Len(p) - 1) = p

\* Length of the longest run of characters of class cls starting at s[i].
RECURSIVE RunLen(_, _, _)
RunLen(s, i, cls) ==
  IF i <= Len(s) /\ At(s, i) \in cls THEN 1 + RunLen(s, i + 1, cls) ELSE 0

RECURSIVE TrimStart(_)
TrimStart(s) == IF Len(s) > 0 /\ At(s, 1) = " " THEN TrimStart(Drop(s, 1)) ELSE s

RECURSIVE TrimEnd(_)
TrimEnd(s) ==
  IF Len(s) > 0 /\ At(s, Len(s)) = " " THEN TrimEnd(SubSeq(s, 1, Len(s) - 1)) ELSE s

\* str::trim
Trim(s) == TrimEnd(TrimStart(s))

DigitVal(c) ==
  CASE c = "0" -> 0 [] c = "1" -> 1 [] c = "2" -> 2 [] c = "3" -> 3 [] c = "4" -> 4
    [] c = "5" -> 5 [] c = "6" -> 6 [] c = "7" -> 7 [] c = "8" -> 8 [] c = "9" -> 9

DigitChar(d) ==
  CASE d = 0 -> "0" [] d = 1 -> "1" [] d = 2 -> "2" [] d = 3 -> "3" [] d = 4 -> "4"
    [] d = 5 -> "5" [] d = 6 -> "6" [] d = 7 -> "7" [] d = 8 -> "8" [] d = 9 -> "9"

RECURSIVE DigitsValue(_)
DigitsValue(s) ==
  IF Len(s) = 0 THEN 0
  ELSE 10 * DigitsValue(SubSeq(s, 1, Len(s) - 1)) + DigitVal(At(s, Len(s)))

\* str::parse::<usize>: an optional "+", then one or more decimal digits.
\* -1 stands for Err(ParseIntError).
ParseUsize(s) ==
  LET body == IF StartsWith(s, "+") THEN Drop(s, 1) ELSE s
  IN  IF Len(body) > 0 /\ RunLen(body, 1, Digits) = Len(body)
      THEN DigitsValue(body)
      ELSE -1

\* format!("{}", n) of a usize
RECURSIVE FormatUsize(_)
FormatUsize(n) ==
  IF n < 10 THEN DigitChar(n) ELSE FormatUsize(n \div 10) \o DigitChar(n % 10)

\* str::replace: every non-overlapping occurrence of pat, left to right.
RECURSIVE StrReplace(_, _, _)
StrReplace(s, pat, rep) ==
  IF Len(s) = 0 THEN s
  ELSE IF StartsWith(s, pat) THEN rep \o StrReplace(Drop(s, Len(pat)), pat, rep)
  ELSE At(s, 1) \o StrReplace(Drop(s, 1), pat, rep)

\* ------------------------------------------------------------------------
\* Errors (error.rs)
\* ------------------------------------------------------------------------

NoLine == 0 - 1

\* ParseError::boxed(message, line_number)
ParseError(message, line_number) == [message |-> message, line_number |-> line_number]

\* The error "?" makes of a failed str::parse::<usize>; it carries no line.
ParseIntError == [message |-> "ParseIntError", line_number |-> NoLine]

NoError == [message |-> "", line_number |-> NoLine]

\* ------------------------------------------------------------------------
\* Variables
\* ------------------------------------------------------------------------

X(n) == [tag |-> "X", n |-> n]

Y == [tag |-> "Y", n |-> 0]

Z(n) == [tag |-> "Z", n |-> n]

NoVar == [tag |-> "none", n |-> 0]

Ok(v) == [ok |-> TRUE, val |-> v, err |-> NoError]

Err(e) == [ok |-> FALSE, val |-> 0, err |-> e]

\* Variable::parse
VariableParse(var, line_num) ==
  LET c == IF Len(var) > 0 THEN At(var, 1) ELSE ""
      n == ParseUsize(Drop(var, 1))
  IN  CASE c = "x" -> IF n >= 0 THEN Ok(X(n)) ELSE Err(ParseIntError)
        [] c = "y" -> Ok(Y)
        [] c = "z" -> IF n >= 0 THEN Ok(Z(n)) ELSE Err(ParseIntError)
        [] OTHER -> Err(ParseError("Invalid variable name", line_num))

\* ------------------------------------------------------------------------
\* Labels
\* ------------------------------------------------------------------------

GroupIndex(c) ==
  CASE c = "A" -> 0 [] c = "B" -> 1 [] c = "C" -> 2 [] c = "D" -> 3 [] c = "E" -> 4

GroupChar(g) ==
  CASE g = 0 -> "A" [] g = 1 -> "B" [] g = 2 -> "C" [] g = 3 -> "D" [] g = 4 -> "E"

\* Label::new
LabelNew(group, number) == number * 5 + group

\* Label::parse
LabelParse(label, line_num) ==
  LET c == IF Len(label) > 0 THEN At(label, 1) ELSE ""
      number == ParseUsize(Drop(label, 1))
  IN  IF c \in GroupChars
      THEN IF number >= 0 THEN Ok(number * 5 + GroupIndex(c)) ELSE Err(ParseIntError)
      ELSE Err(ParseError("Invalid label name", line_num))

\* Display for Label
LabelFmt(label) == GroupChar(label % 5) \o FormatUsize(label \div 5)

\* ------------------------------------------------------------------------
\* Instructions
\* ------------------------------------------------------------------------

NoLabel == 0 - 1

Increment(var) == [op |-> "Increment", var |-> var, to |-> NoLabel]

Decrement(var) == [op |-> "Decrement", var |-> var, to |-> NoLabel]

JumpNonZero(var, to) == [op |-> "JumpNonZero", var |-> var, to |-> to]

Nop == [op |-> "Nop", var |-> NoVar, to |-> NoLabel]

PrintIns(var) == [op |-> "Print", var |-> var, to |-> NoLabel]

StateIns == [op |-> "State", var |-> NoVar, to |-> NoLabel]

\* Result<Option<Instruction>, _> of Instruction::parse
ParsedSome(ins) == [res |-> "some", ins |-> ins, err |-> NoError]

ParsedNone == [res |-> "none", ins |-> Nop, err |-> NoError]

ParsedErr(e) == [res |-> "err", ins |-> Nop, err |-> e]

\* The text (y|[xz]\d+) matches at the start of s, "" when it matches none.
\* Every expression that uses the group follows it by a space or by the end
\* of the line, so only the longest run of digits can lead to a match.
VarToken(s) ==
  IF StartsWith(s, "y") THEN "y"
  ELSE IF Len(s) > 0 /\ At(s, 1) \in {"x", "z"} /\ RunLen(s, 2, Digits) > 0
       THEN SubSeq(s, 1, 1 + RunLen(s, 2, Digits))
       ELSE ""

\* ^(y|[xz]\d+) <- \1 \+ 1$
IncMatch(s) == VarToken(s) # "" /\ s = VarToken(s) \o " <- " \o VarToken(s) \o " + 1"

\* ^(y|[xz]\d+) <- (\1) - 1$
DecMatch(s) == VarToken(s) # "" /\ s = VarToken(s) \o " <- " \o VarToken(s) \o " - 1"

\* ^if (y|[xz]\d+) != 0 goto (\w+)$
JnzVar(s) == VarToken(Drop(s, 3))

JnzLabel(s) == Drop(s, 3 + Len(JnzVar(s)) + 11)

JnzMatch(s) ==
  /\ StartsWith(s, "if ")
  /\ JnzVar(s) # ""
  /\ OccursAt(s, " != 0 goto ", 4 + Len(JnzVar(s)))
  /\ Len(JnzLabel(s)) > 0
  /\ RunLen(JnzLabel(s), 1, WordChars) = Len(JnzLabel(s))

\* ^print (y|[xz]\d+)$
PrintMatch(s) ==
  /\ StartsWith(s, "print ")
  /\ VarToken(Drop(s, 6)) # ""
  /\ VarToken(Drop(s, 6)) = Drop(s, 6)

\* Instruction::parse
InstructionParse(instruction, line_num) ==
  IF IncMatch(instruction) THEN
    LET v == VariableParse(VarToken(instruction), line_num)
    IN  IF v.ok THEN ParsedSome(Increment(v.val)) ELSE ParsedErr(v.err)
  ELSE IF DecMatch(instruction) THEN
    LET v == VariableParse(VarToken(instruction), line_num)
    IN  IF v.ok THEN ParsedSome(Decrement(v.val)) ELSE ParsedErr(v.err)
  ELSE IF JnzMatch(instruction) THEN
    LET v == VariableParse(JnzVar(instruction), line_num)
        l == LabelParse(JnzLabel(instruction), line_num)
    IN  IF ~v.ok THEN ParsedErr(v.err)
        ELSE IF ~l.ok THEN ParsedErr(l.err)
        ELSE ParsedSome(JumpNonZero(v.val, l.val))
  ELSE IF instruction = "nop" THEN ParsedSome(Nop)
  ELSE IF PrintMatch(instruction) THEN
    LET v == VariableParse(Drop(instruction, 6), line_num)
    IN  IF v.ok THEN ParsedSome(PrintIns(v.val)) ELSE ParsedErr(v.err)
  ELSE IF instruction = "state" THEN ParsedSome(StateIns)
  ELSE ParsedNone

\* ------------------------------------------------------------------------
\* Macros
\* ------------------------------------------------------------------------

\* The capturing wildcard (\w+) a placeholder compiles to; every other
\* element of a pattern is one literal character.
GroupElem == "(\\w+)"

\* Length of the placeholder {name} that starts at def[i], 0 when none does:
\* the expression \{(\w+)} of Macro::parse.
PlaceholderLen(def, i) ==
  LET k == RunLen(def, i + 1, WordChars)
  IN  IF At(def, i) = "{" /\ k > 0 /\ i + 1 + k <= Len(def) /\ At(def, i + 1 + k) = "}"
      THEN k + 2
      ELSE 0

\* The compiled pattern of a header, between its anchors ^ and $: the
\* characters the escape expression escapes and those it leaves alone all
\* match themselves.
RECURSIVE MacroPattern(_, _)
MacroPattern(def, i) ==
  IF i > Len(def) THEN << >>
  ELSE IF PlaceholderLen(def, i) > 0
       THEN <<GroupElem>> \o MacroPattern(def, i + PlaceholderLen(def, i))
       ELSE <<At(def, i)>> \o MacroPattern(def, i + 1)

\* The placeholder names of a header, in the order of their groups.
RECURSIVE MacroNames(_, _)
MacroNames(def, i) ==
  IF i > Len(def) THEN << >>
  ELSE IF PlaceholderLen(def, i) > 0
       THEN <<SubSeq(def, i + 1, i + PlaceholderLen(def, i) - 2)>>
              \o MacroNames(def, i + PlaceholderLen(def, i))
       ELSE MacroNames(def, i + 1)

\* replacements.insert(name, n) for n = 0, 1, ...: a later insert of the
\* same name replaces the earlier one.
MacroReplacements(names) ==
  [nm \in {names[i] : i \in 1..Len(names)} |->
     CHOOSE n \in 0..(Len(names) - 1) :
       /\ names[n + 1] = nm
       /\ \A k \in 0..(Len(names) - 1) : names[k + 1] = nm => k <= n]

\* Macro::parse
MacroParse(def) ==
  [pattern      |-> MacroPattern(def, 1),
   replacements |-> MacroReplacements(MacroNames(def, 1)),
   instructions |-> << >>]

NoMatch == [ok |-> FALSE, caps |-> << >>]

\* pattern.captures(s): a backtracking match of the whole line; a group
\* takes the longest run of word characters that lets the rest match.
RECURSIVE MatchFrom(_, _, _, _)
RECURSIVE MatchGroup(_, _, _, _, _)
MatchFrom(pat, pi, s, si) ==
  IF pi > Len(pat) THEN [ok |-> si = Len(s) + 1, caps |-> << >>]
  ELSE IF pat[pi] = GroupElem THEN MatchGroup(pat, pi, s, si, RunLen(s, si, WordChars))
  ELSE IF si <= Len(s) /\ At(s, si) = pat[pi] THEN MatchFrom(pat, pi + 1, s, si + 1)
  ELSE NoMatch

MatchGroup(pat, pi, s, si, len) ==
  IF len = 0 THEN NoMatch
  ELSE LET r == MatchFrom(pat, pi + 1, s, si + len)
       IN  IF r.ok
           THEN [ok |-> TRUE, caps |-> <<SubSeq(s, si, si + len - 1)>> \o r.caps]
           ELSE MatchGroup(pat, pi, s, si, len - 1)

Captures(pattern, s) == MatchFrom(pattern, 1, s, 1)

\* The loop over the macros without its return: the last match is taken.
LastMatch(macros, s) ==
  IF \E k \in 1..Len(macros) : Captures(macros[k].pattern, s).ok
  THEN CHOOSE k \in 1..Len(macros) :
         /\ Captures(macros[k].pattern, s).ok
         /\ \A j \in (k + 1)..Len(macros) : ~Captures(macros[j].pattern, s).ok
  ELSE 0

\* Index of the first macro of the list whose pattern matches s, 0 if none.
FirstMatch(macros, s) ==
  IF \E k \in 1..Len(macros) : Captures(macros[k].pattern, s).ok
  THEN CHOOSE k \in 1..Len(macros) :
         /\ Captures(macros[k].pattern, s).ok
         /\ \A j \in 1..(k - 1) : ~Captures(macros[j].pattern, s).ok
  ELSE 0

\* ------------------------------------------------------------------------
\* The counting pre-pass of Program::from_file
\* ------------------------------------------------------------------------

SetMax(S) == IF S = {} THEN 0 ELSE CHOOSE m \in S : \A k \in S : k <= m

\* The numbers \bz(\d+)\b captures in a line.
TempVarsIn(line) ==
  {ParseUsize(SubSeq(line, i + 1, i + RunLen(line, i + 1, Digits))) :
     i \in {j \in 1..Len(line) :
              /\ At(line, j) = "z"
              /\ (j = 1 \/ At(line, j - 1) \notin WordChars)
              /\ RunLen(line, j + 1, Digits) > 0
              /\ LET e == j + 1 + RunLen(line, j + 1, Digits)
                 IN  e > Len(line) \/ At(line, e) \notin WordChars}}

\* The (group, number) pairs ([A-E])(\d+) captures in a line.
LabelsIn(line) ==
  {<<GroupIndex(At(line, i)),
     ParseUsize(SubSeq(line, i + 1, i + RunLen(line, i + 1, Digits)))>> :
     i \in {j \in 1..Len(line) :
              At(line, j) \in GroupChars /\ RunLen(line, j + 1, Digits) > 0}}

\* The fold of the pre-pass over the temp variables of all lines.
PreScanTempVar(lines) ==
  SetMax(UNION {TempVarsIn(lines[i]) : i \in 1..Len(lines)})

\* The fold of the pre-pass over the labels of all lines.
PreScanLabels(lines) ==
  [g \in 0..4 |->
     SetMax({p[2] : p \in {q \in UNION {LabelsIn(lines[i]) : i \in 1..Len(lines)} :
                             q[1] = g}})]

\* ------------------------------------------------------------------------
\* Labels of a line, generated names
\* ------------------------------------------------------------------------

\* Length of the leading [name] of a line, 0 when it has none: ^\[(\w+)]
LeadingLabelLen(instruction) ==
  LET k == RunLen(instruction, 2, WordChars)
  IN  IF StartsWith(instruction, "[") /\ k > 0 /\ At(instruction, 2 + k) = "]"
      THEN k + 2
      ELSE 0

\* find_label without the contains_key test: a second definition rebinds.
FindLabelRebind(instruction, instruction_number, labels, line_num) ==
  LET n == LeadingLabelLen(instruction)
      label == LabelParse(SubSeq(instruction, 2, n - 1), line_num)
  IN  IF n = 0 THEN [ok |-> TRUE, err |-> NoError, labels |-> labels, rest |-> instruction]
      ELSE IF ~label.ok
           THEN [ok |-> FALSE, err |-> label.err, labels |-> labels, rest |-> instruction]
      ELSE [ok |-> TRUE, err |-> NoError,
            labels |-> [k \in DOMAIN labels \cup {label.val} |->
                          IF k = label.val THEN instruction_number ELSE labels[k]],
            rest |-> Drop(instruction, n)]

\* find_label binding the label one position late.
FindLabelOffByOne(instruction, instruction_number, labels, line_num) ==
  LET n == LeadingLabelLen(instruction)
      label == LabelParse(SubSeq(instruction, 2, n - 1), line_num)
  IN  IF n = 0 THEN [ok |-> TRUE, err |-> NoError, labels |-> labels, rest |-> instruction]
      ELSE IF ~label.ok
           THEN [ok |-> FALSE, err |-> label.err, labels |-> labels, rest |-> instruction]
      ELSE IF label.val \in DOMAIN labels
           THEN [ok |-> FALSE,
                 err |-> ParseError("Redefined label " \o LabelFmt(label.val), line_num),
                 labels |-> labels, rest |-> instruction]
      ELSE [ok |-> TRUE, err |-> NoError,
            labels |-> labels @@ (label.val :> instruction_number + 1),
            rest |-> Drop(instruction, n)]

\* Program::find_label: the error, the label table and the rest of the line.
FindLabel(instruction, instruction_number, labels, line_num) ==
  LET n == LeadingLabelLen(instruction)
      label == LabelParse(SubSeq(instruction, 2, n - 1), line_num)
  IN  IF n = 0 THEN [ok |-> TRUE, err |-> NoError, labels |-> labels, rest |-> instruction]
      ELSE IF ~label.ok
           THEN [ok |-> FALSE, err |-> label.err, labels |-> labels, rest |-> instruction]
      ELSE IF label.val \in DOMAIN labels
           THEN [ok |-> FALSE,
                 err |-> ParseError("Redefined label " \o LabelFmt(label.val), line_num),
                 labels |-> labels, rest |-> instruction]
      ELSE [ok |-> TRUE, err |-> NoError,
            labels |-> labels @@ (label.val :> instruction_number),
            rest |-> Drop(instruction, n)]

\* The increment left out: the counter stays where it is.
BumpLabelStuck(max_labels, group) == max_labels

\* max_labels[group] += 1
BumpLabel(max_labels, group) == [max_labels EXCEPT ![group] = @ + 1]

\* The increment left out: the counter stays where it is.
BumpTempVarStuck(max_temp_var) == max_temp_var

\* *max_temp_var += 1
BumpTempVar(max_temp_var) == max_temp_var + 1

\* The memo is not consulted: every occurrence of a token allocates.
RECURSIVE ReplaceAutoLabelsNoMemo(_, _, _, _)
ReplaceAutoLabelsNoMemo(s, i, auto_labels, max_labels) ==
  IF i > Len(s)
  THEN [text |-> "", auto_labels |-> auto_labels, max_labels |-> max_labels]
  ELSE IF /\ At(s, i) = "%"
          /\ i + 1 <= Len(s)
          /\ At(s, i + 1) \in GroupChars
          /\ RunLen(s, i + 2, Digits) > 0
  THEN LET k      == RunLen(s, i + 2, Digits)
           group  == GroupIndex(At(s, i + 1))
           number == ParseUsize(SubSeq(s, i + 2, i + 1 + k))
           key    == LabelNew(group, number)
           maxl   == BumpLabel(max_labels, group)
           memo   == [t \in DOMAIN auto_labels \cup {key} |->
                        IF t = key THEN LabelNew(group, maxl[group]) ELSE auto_labels[t]]
           rest   == ReplaceAutoLabelsNoMemo(s, i + 2 + k, memo, maxl)
       IN  [rest EXCEPT !.text = LabelFmt(memo[key]) \o @]
  ELSE LET rest == ReplaceAutoLabelsNoMemo(s, i + 1, auto_labels, max_labels)
       IN  [rest EXCEPT !.text = At(s, i) \o @]

\* auto_label_regex.replace_all of expand_macro, from position i of the line:
\* %([A-E])(\d+) becomes the label its memo holds, allocated on first use.
RECURSIVE ReplaceAutoLabels(_, _, _, _)
ReplaceAutoLabels(s, i, auto_labels, max_labels) ==
  IF i > Len(s)
  THEN [text |-> "", auto_labels |-> auto_labels, max_labels |-> max_labels]
  ELSE IF /\ At(s, i) = "%"
          /\ i + 1 <= Len(s)
          /\ At(s, i + 1) \in GroupChars
          /\ RunLen(s, i + 2, Digits) > 0
  THEN LET k      == RunLen(s, i + 2, Digits)
           group  == GroupIndex(At(s, i + 1))
           number == ParseUsize(SubSeq(s, i + 2, i + 1 + k))
           key    == LabelNew(group, number)
           fresh  == key \notin DOMAIN auto_labels
           maxl   == IF fresh THEN BumpLabel(max_labels, group) ELSE max_labels
           memo   == IF fresh
                     THEN auto_labels @@ (key :> LabelNew(group, maxl[group]))
                     ELSE auto_labels
           rest   == ReplaceAutoLabels(s, i + 2 + k, memo, maxl)
       IN  [rest EXCEPT !.text = LabelFmt(memo[key]) \o @]
  ELSE LET rest == ReplaceAutoLabels(s, i + 1, auto_labels, max_labels)
       IN  [rest EXCEPT !.text = At(s, i) \o @]

\* auto_var_regex.replace_all of expand_macro, from position i of the line:
\* \$(\w+) becomes z<N>, N allocated on the first use of the name.
RECURSIVE ReplaceAutoVars(_, _, _, _)
ReplaceAutoVars(s, i, auto_vars, max_temp_var) ==
  IF i > Len(s)
  THEN [text |-> "", auto_vars |-> auto_vars, max_temp_var |-> max_temp_var]
  ELSE IF At(s, i) = "$" /\ RunLen(s, i + 1, WordChars) > 0
  THEN LET k        == RunLen(s, i + 1, WordChars)
           var_name == SubSeq(s, i + 1, i + k)
           fresh    == var_name \notin DOMAIN auto_vars
           maxv     == IF fresh THEN BumpTempVar(max_temp_var) ELSE max_temp_var
           memo     == IF fresh THEN auto_vars @@ (var_name :> maxv) ELSE auto_vars
           rest     == ReplaceAutoVars(s, i + 1 + k, memo, maxv)
       IN  [rest EXCEPT !.text = "z" \o FormatUsize(memo[var_name]) \o @]
  ELSE LET rest == ReplaceAutoVars(s, i + 1, auto_vars, max_temp_var)
       IN  [rest EXCEPT !.text = At(s, i) \o @]

\* The placeholder loop of expand_macro for one order of the names.
RECURSIVE ReplaceInOrder(_, _, _, _)
ReplaceInOrder(s, order, replacements, caps) ==
  IF Len(order) = 0 THEN s
  ELSE ReplaceInOrder(StrReplace(s, Head(order), caps[replacements[Head(order)] + 1]),
                      Tail(order), replacements, caps)

\* Every order of iteration of a HashMap with the given keys.
RECURSIVE Orders(_)
Orders(S) ==
  IF S = {} THEN {<< >>}
  ELSE UNION {{<<k>> \o o : o \in Orders(S \ {k})} : k \in S}

\* The lines the placeholder loop can produce: the map is iterated in an
\* order the program does not fix.
PlaceholderResults(s, replacements, caps) ==
  {ReplaceInOrder(s, order, replacements, caps) : order \in Orders(DOMAIN replacements)}

\* ------------------------------------------------------------------------
\* Source text
\* ------------------------------------------------------------------------

\* PROLOGUE.lines()
PROLOGUE ==
   <<
      "",
      "@def goto {label}",
      "    $a <- $a + 1",
      "    if $a != 0 goto label",
      "@end",
      "",
      "@def if {v} = 0 goto {label}",
      "        if v != 0 goto %E1",
      "        goto label",
      "[%E1]   nop",
      "@end",
      "",
      "@def if {v1} < {v2} goto {label}",
      "        $a <- v2 - v1",
      "        if $a != 0 goto label",
      "@end",
      "",
      "@def {v} <- 0",
      "[%A1]   v <- v - 1",
      "        if v != 0 goto %A1",
      "@end",
      "",
      "@def {v1} <- {v2}",
      "        v1 <- 0",
      "[%A1]   if v2 != 0 goto %B1",
      "        goto %C1",
      "[%B1]   v2 <- v2 - 1",
      "        v1 <- v1 + 1",
      "        $a <- $a + 1",
      "        goto %A1",
      "[%C1]   if $a != 0 goto %D1",
      "        goto %E1",
      "[%D1]   $a <- $a - 1",
      "        v2 <- v2 + 1",
      "        goto %C1",
      "[%E1]   nop",
      "@end",
      "",
      "@def {v} <- {a} + {b}",
      "        v <- a",
      "        $t <- b",
      "[%C1]   if $t != 0 goto %B1",
      "        goto %E1",
      "[%B1]   $t <- $t - 1",
      "        v <- v + 1",
      "        goto %C1",
      "[%E1]   nop",
      "@end",
      "",
      "@def {v} <- {a} - {b}",
      "        v <- a",
      "        $t <- b",
      "[%C1]   if $t != 0 goto %B1",
      "        goto %E1",
      "[%B1]   $t <- $t - 1",
      "        v <- v - 1",
      "        if v != 0 goto %C1",
      "[%E1]   nop",
      "@end",
      "",
      "@def {v} <- {a} * {b}",
      "        v <- 0",
      "        $t <- b",
      "[%B1]   if $t != 0 goto %A1",
      "        goto %E1",
      "[%A1]   $t <- $t - 1",
      "        $u <- a + v",
      "        v <- $u",
      "        goto %B1",
      "[%E1]   nop",
      "@end",
      "",
      "@def {v} <- {a} / {b}",
      "        v <- 0",
      "        $t <- a",
      "[%C1]   $u <- b - $t",
      "        if $u != 0 goto %E1",
      "        $w <- $t - b",
      "        $t <- $w",
      "        v <- v + 1",
      "        goto %C1",
      "[%E1]   nop",
      "@end",
      "",
      "# Alt syntax macros",
      "@def inc {v}",
      "        v <- v + 1",
      "@end",
      "",
      "@def dec {v}",
      "        v <- v - 1",
      "@end",
      "",
      "@def jnz {v} {label}",
      "        if v != 0 goto label",
      "@end",
      "",
      "@def jze {v} {label}",
      "        if v = 0 goto label",
      "@end",
      "",
      "@def jlt {v1} {v2} {label}",
      "        if v1 < v2 goto label",
      "@end",
      "",
      "@def mov {v1} {v2}",
      "        v1 <- v2",
      "@end"
   >>

\* The register names the copy programs below are written with.
CopyNames == {"y", "x1", "x2", "z1"}

\* One-line user files "v1 <- v2", v1 and v2 distinct.
CopyFiles == {<<v1 \o " <- " \o v2>> : v1, v2 \in CopyNames} \ {<<v \o " <- " \o v>> : v \in CopyNames}

\* User files that assemble and run primitives, jumps and built-in macros.
RunFiles ==
  { <<"x1 <- x1 + 1", "if x1 != 0 goto A0", "[A0] nop">>,
    <<"y <- y - 1", "x1 <- x1 - 1", "if x1 != 0 goto B9", "y <- y + 1">>,
    <<"[A1] x1 <- x1 + 1", "if x1 != 0 goto A1">>,
    <<"print y", "state", "x2 <- x2 - 1", "z2 <- z2 - 1", "z1 <- z1 + 1">>,
    <<"y <- x1 * x2", "z1 <- x1 * x2">>,
    <<"y <- x1 + x2", "y <- x1 + x2">>,
    <<"[A7] y <- 0", "goto E3", "y <- y + 1", "[E3] if x1 = 0 goto A7">>,
    <<"goto A1", "y <- y + 1", "[A1] goto B1", "y <- y + 1", "[B1] nop">>,
    <<"@def nop", "y <- y + 1", "@end", "@def {a} <- 0", "a <- a + 1", "@end",
      "@def both {v}", "nop", "v <- 0", "@end", "nop", "x1 <- 0", "both y">> }

\* User files with directives, well-formed and not.
DirectiveFiles ==
  { <<"", "# comment", "nop", "nop", "nop", "@foo">>,
    <<"@foo", "nop">>,
    <<"nop", "@end">>,
    <<"@def twice {v}", "@def inner", "@end">>,
    <<"@def twice {v}", "    v <- v + 1", "    v <- v + 1", "@end", "twice y", "twice x1">>,
    <<"@def open {v}", "v <- v + 1">>,
    <<"garbage", "nop">>,
    <<"nop", "[A1] garbage", "nop">>,
    <<"@def pair {a} {a}", "a <- a + 1", "@end", "pair x1 x2">>,
    <<"@def put {y} {v}", "v <- v + 1", "@end", "put x1 y">>,
    <<"@def bad {v}", "v <- v + 1", "garbage", "[B2] more garbage", "@end", "bad y", "if y != 0 goto B2">>,
    <<"@def bad {v}", "v <- v + 1", "[B2] garbage", "@end", "@def outer {v}", "bad v", "junk v",
      "@end", "outer y", "if y != 0 goto B2">> }

\* User files that define labels more than once, literally or by a macro.
LabelFiles ==
  { <<"[A1] nop", "[A1] nop">>,
    <<"[A1] nop", "[B1] nop", "[A01] nop">>,
    <<"@def lab", "[A1] nop", "@end", "[A1] nop">>,
    <<"@def lab", "[A1] nop", "@end", "@def lab2", "[A1] nop", "@end", "nop">>,
    <<"@def lab", "[A1] nop", "@end", "lab", "lab">>,
    <<"@def lab", "[A1] nop", "@end", "[A1] nop", "lab">>,
    <<"@def dup", "[%A1] nop", "[%A1] nop", "@end", "dup">>,
    <<"@def loop {v}", "[%A1] v <- v - 1", "if v != 0 goto %A1", "[%B1] nop", "@end",
      "loop x1", "[A5] loop x2", "[B9] nop">>,
    <<"[foo] nop">> }

\* User files whose variables have index 0 or are put together by a macro.
VariableFiles ==
  { <<"x0 <- x0 + 1">>,
    <<"y <- y + 1", "z0 <- z0 - 1">>,
    <<"if x0 != 0 goto A1">>,
    <<"y <- x0">>,
    <<"@def t {n}", "zn <- zn + 1", "@end", "t 1", "goto A1", "[A1] nop">>,
    <<"@def inc{v}", "v <- v + 1", "@end", "incz1", "goto A1", "[A1] nop">>,
    <<"z3 <- z3 + 1", "goto A1", "[A1] z1 <- z3">>,
    <<"x2 <- x2 - 1", "if z2 != 0 goto A1", "z3 <- z3 + 1", "x2 <- x2 + 1">> }

\* The user files the model assembles.
Files == CopyFiles \cup RunFiles \cup DirectiveFiles \cup LabelFiles \cup VariableFiles

\* The x-registers given on the command line: none, x1, or x1 and x2 (the
\* files above name no other x-register).
Inputs == UNION {[1..k -> 0..MaxInput] : k \in 0..2}

\* ------------------------------------------------------------------------
\* State
\* ------------------------------------------------------------------------

VARIABLES
  file,          \* the lines of the user's source file
  phase,         \* "prescan", "assemble", "failed", "assembled", "running", "halted", "panicked"
  line_num,      \* from_file: the enumerate() index of the line being processed
  current_macro, \* from_file: the open macro definition, << >> when none
  instructions,  \* Program.instructions
  labels,        \* Program.labels
  macros,        \* Program.macros
  max_temp_var,  \* Program.max_temp_var
  max_labels,    \* Program.max_labels
  frames,        \* the active calls of expand_macro, innermost last
  error,         \* the Err from_file returned
  generated,     \* history: the labels expand_macro allocated, in order
  args,          \* main: the x-register values of the command line
  x,             \* State.x
  z,             \* State.z
  y,             \* State.y
  pc,            \* State.pc
  steps          \* the calls of step() made by run() so far

asm == <<line_num, current_macro, instructions, labels, macros, max_temp_var, max_labels,
         frames, error, generated>>

machine == <<args, x, z, y, pc, steps>>

vars == <<file, phase, line_num, current_macro, instructions, labels, macros,
          max_temp_var, max_labels, frames, error, generated, args, x, z, y, pc, steps>>

\* The lines from_file enumerates: the prologue, then the file.
Lines == PROLOGUE \o file

CurLine == Lines[line_num + 1]

Init ==
  /\ file \in Files
  /\ phase = "prescan"
  /\ line_num = 0
  /\ current_macro = << >>
  /\ instructions = << >>
  /\ labels = << >>
  /\ macros = << >>
  /\ max_temp_var = 0
  /\ max_labels = [g \in 0..4 |-> 0]
  /\ frames = << >>
  /\ error = NoError
  /\ generated = << >>
  /\ args = << >>
  /\ x = << >>
  /\ z = << >>
  /\ y = 0
  /\ pc = 0
  /\ steps = 0

\* ------------------------------------------------------------------------
\* Program::from_file
\* ------------------------------------------------------------------------

\* The variable and label counting pre-pass.
PreScan ==
  /\ phase = "prescan"
  /\ max_temp_var' = PreScanTempVar(Lines)
  /\ max_labels' = PreScanLabels(Lines)
  /\ phase' = "assemble"
  /\ UNCHANGED <<file, generated, line_num, current_macro, instructions, labels, macros, frames,
                 error, machine>>

\* The loop of from_file is at a line and no macro is being expanded.
AtLine == phase = "assemble" /\ frames = << >> /\ line_num < Len(Lines)

IsSkipped(line) == line = "" \/ StartsWith(line, "#")

IsDirective(line) == ~IsSkipped(line) /\ StartsWith(line, "@")

\* return Err(..): the program under construction is dropped.
Fail(e) ==
  /\ phase' = "failed"
  /\ error' = e

\* Empty lines and comments.
SkipLine ==
  /\ AtLine
  /\ IsSkipped(CurLine)
  /\ line_num' = line_num + 1
  /\ UNCHANGED <<file, generated, phase, current_macro, instructions, labels, macros, max_temp_var,
                 max_labels, frames, error, machine>>

\* @def without the is_some test: a nested @def replaces the open definition.
DirectiveDefReopen ==
  /\ AtLine
  /\ IsDirective(CurLine)
  /\ StartsWith(CurLine, "@def")
  /\ current_macro' = <<MacroParse(Trim(Drop(CurLine, 4)))>>
  /\ line_num' = line_num + 1
  /\ UNCHANGED <<file, generated, phase, error, instructions, labels, macros, max_temp_var,
                 max_labels, frames, machine>>

\* @def <header>
DirectiveDef ==
  /\ AtLine
  /\ IsDirective(CurLine)
  /\ StartsWith(CurLine, "@def")
  /\ IF current_macro # << >>
     THEN /\ Fail(ParseError("Unexpected nested @def directive", line_num))
          /\ UNCHANGED <<line_num, current_macro>>
     ELSE /\ current_macro' = <<MacroParse(Trim(Drop(CurLine, 4)))>>
          /\ line_num' = line_num + 1
          /\ UNCHANGED <<phase, error>>
  /\ UNCHANGED <<file, generated, instructions, labels, macros, max_temp_var, max_labels, frames,
                 machine>>

\* @end
DirectiveEnd ==
  /\ AtLine
  /\ IsDirective(CurLine)
  /\ ~StartsWith(CurLine, "@def")
  /\ StartsWith(CurLine, "@end")
  /\ IF current_macro = << >>
     THEN /\ Fail(ParseError("Unexpected @end directive", line_num))
          /\ UNCHANGED <<line_num, current_macro, macros>>
     ELSE /\ macros' = Append(macros, current_macro[1])
          /\ current_macro' = << >>
          /\ line_num' = line_num + 1
          /\ UNCHANGED <<phase, error>>
  /\ UNCHANGED <<file, generated, instructions, labels, max_temp_var, max_labels, frames, machine>>

\* Any other line that starts with @
DirectiveUnknown ==
  /\ AtLine
  /\ IsDirective(CurLine)
  /\ ~StartsWith(CurLine, "@def")
  /\ ~StartsWith(CurLine, "@end")
  /\ Fail(ParseError("Unknown directive", line_num))
  /\ UNCHANGED <<file, generated, line_num, current_macro, instructions, labels, macros,
                 max_temp_var, max_labels, frames, machine>>

\* A line inside an open definition is kept as it is written.
BodyLine ==
  /\ AtLine
  /\ ~IsSkipped(CurLine)
  /\ ~IsDirective(CurLine)
  /\ current_macro # << >>
  /\ current_macro' =
       <<[current_macro[1] EXCEPT !.instructions = Append(@, CurLine)]>>
  /\ line_num' = line_num + 1
  /\ UNCHANGED <<file, generated, phase, instructions, labels, macros, max_temp_var, max_labels,
                 frames, error, machine>>

\* A call of expand_macro that has just been entered.
NewFrame(m, caps) ==
  [m |-> m, next |-> 1, caps |-> caps, auto_vars |-> << >>, auto_labels |-> << >>]

\* The calls of expand_macro that have run through their template lines return.
RECURSIVE PopFinished(_, _)
PopFinished(fs, ms) ==
  IF fs # << >> /\ fs[Len(fs)].next > Len(ms[fs[Len(fs)].m].instructions)
  THEN PopFinished(SubSeq(fs, 1, Len(fs) - 1), ms)
  ELSE fs

\* The line is done with: back in the loop of from_file once no expansion is
\* left on the stack.
Continue(fs) ==
  /\ frames' = PopFinished(fs, macros)
  /\ line_num' = IF PopFinished(fs, macros) = << >> THEN line_num + 1 ELSE line_num

\* parse_line dropping a line that nothing matches, as expand_macro does,
\* in place of returning the error.
ParseLineDropsUnmatched ==
  /\ AtLine
  /\ ~IsSkipped(CurLine)
  /\ ~IsDirective(CurLine)
  /\ current_macro = << >>
  /\ LET found  == FindLabel(CurLine, Len(instructions), labels, line_num)
         text   == Trim(found.rest)
         parsed == InstructionParse(text, line_num)
         m      == FirstMatch(macros, text)
     IN  IF ~found.ok THEN
           /\ Fail(found.err)
           /\ UNCHANGED <<line_num, instructions, labels, frames>>
         ELSE IF parsed.res = "err" THEN
           /\ Fail(parsed.err)
           /\ labels' = found.labels
           /\ UNCHANGED <<line_num, instructions, frames>>
         ELSE IF parsed.res = "some" THEN
           /\ instructions' = Append(instructions, parsed.ins)
           /\ labels' = found.labels
           /\ Continue(<< >>)
           /\ UNCHANGED <<phase, error>>
         ELSE IF m # 0 THEN
           /\ labels' = found.labels
           /\ Continue(<<NewFrame(m, Captures(macros[m].pattern, text).caps)>>)
           /\ UNCHANGED <<phase, error, instructions>>
         ELSE
           /\ labels' = found.labels
           /\ Continue(<< >>)
           /\ UNCHANGED <<phase, error, instructions>>
  /\ UNCHANGED <<file, generated, current_macro, macros, max_temp_var, max_labels, machine>>

\* Program::parse_line, up to the call of expand_macro.
ParseLine ==
  /\ AtLine
  /\ ~IsSkipped(CurLine)
  /\ ~IsDirective(CurLine)
  /\ current_macro = << >>
  /\ LET found  == FindLabel(CurLine, Len(instructions), labels, line_num)
         text   == Trim(found.rest)
         parsed == InstructionParse(text, line_num)
         m      == FirstMatch(macros, text)
     IN  IF ~found.ok THEN
           /\ Fail(found.err)
           /\ UNCHANGED <<line_num, instructions, labels, frames>>
         ELSE IF parsed.res = "err" THEN
           /\ Fail(parsed.err)
           /\ labels' = found.labels
           /\ UNCHANGED <<line_num, instructions, frames>>
         ELSE IF parsed.res = "some" THEN
           /\ instructions' = Append(instructions, parsed.ins)
           /\ labels' = found.labels
           /\ Continue(<< >>)
           /\ UNCHANGED <<phase, error>>
         ELSE IF m # 0 THEN
           /\ labels' = found.labels
           /\ Continue(<<NewFrame(m, Captures(macros[m].pattern, text).caps)>>)
           /\ UNCHANGED <<phase, error, instructions>>
         ELSE
           /\ Fail(ParseError("Expression " \o text \o " is not a valid instruction",
                              line_num))
           /\ labels' = found.labels
           /\ UNCHANGED <<line_num, instructions, frames>>
  /\ UNCHANGED <<file, generated, current_macro, macros, max_temp_var, max_labels, machine>>

\* The labels a memo gained, in ascending order.
RECURSIVE Ascending(_)
Ascending(S) ==
  IF S = {} THEN << >>
  ELSE LET m == CHOOSE k \in S : \A j \in S : k <= j
       IN  <<m>> \o Ascending(S \ {m})

Allocated(before, after) ==
  Ascending({after[k] : k \in DOMAIN after \ DOMAIN before})

\* expand_macro returning the error of parse_line for a template line that
\* nothing matches, in place of going on to the next line.
ExpandLineFailsUnmatched ==
  /\ phase = "assemble"
  /\ frames # << >>
  /\ LET f        == frames[Len(frames)]
         mac      == macros[f.m]
         template == mac.instructions[f.next]
         autol    == ReplaceAutoLabels(template, 1, f.auto_labels, max_labels)
         found    == FindLabel(autol.text, Len(instructions), labels, line_num)
     IN  /\ max_labels' = autol.max_labels
         /\ generated' = generated \o Allocated(f.auto_labels, autol.auto_labels)
         /\ IF ~found.ok THEN
              /\ Fail(found.err)
              /\ UNCHANGED <<line_num, instructions, labels, frames, max_temp_var>>
            ELSE
              \E replaced \in PlaceholderResults(Trim(found.rest), mac.replacements, f.caps) :
                LET autov  == ReplaceAutoVars(replaced, 1, f.auto_vars, max_temp_var)
                    parsed == InstructionParse(autov.text, line_num)
                    m      == FirstMatch(macros, autov.text)
                    upper  == SubSeq(frames, 1, Len(frames) - 1)
                    after  == [f EXCEPT !.next = @ + 1,
                                        !.auto_labels = autol.auto_labels,
                                        !.auto_vars = autov.auto_vars]
                IN  /\ labels' = found.labels
                    /\ max_temp_var' = autov.max_temp_var
                    /\ IF parsed.res = "err" THEN
                         /\ Fail(parsed.err)
                         /\ UNCHANGED <<line_num, instructions, frames>>
                       ELSE IF parsed.res = "some" THEN
                         /\ instructions' = Append(instructions, parsed.ins)
                         /\ Continue(Append(upper, after))
                         /\ UNCHANGED <<phase, error>>
                       ELSE IF m # 0 THEN
                         /\ Continue(Append(Append(upper, after),
                                            NewFrame(m, Captures(macros[m].pattern,
                                                                 autov.text).caps)))
                         /\ UNCHANGED <<phase, error, instructions>>
                       ELSE
                         /\ Fail(ParseError("Expression " \o autov.text
                                             \o " is not a valid instruction", line_num))
                         /\ UNCHANGED <<line_num, instructions, frames>>
  /\ UNCHANGED <<file, current_macro, macros, machine>>

\* Program::expand_macro: one template line of the innermost call.
ExpandLine ==
  /\ phase = "assemble"
  /\ frames # << >>
  /\ LET f        == frames[Len(frames)]
         mac      == macros[f.m]
         template == mac.instructions[f.next]
         autol    == ReplaceAutoLabels(template, 1, f.auto_labels, max_labels)
         found    == FindLabel(autol.text, Len(instructions), labels, line_num)
     IN  /\ max_labels' = autol.max_labels
         /\ generated' = generated \o Allocated(f.auto_labels, autol.auto_labels)
         /\ IF ~found.ok THEN
              /\ Fail(found.err)
              /\ UNCHANGED <<line_num, instructions, labels, frames, max_temp_var>>
            ELSE
              \E replaced \in PlaceholderResults(Trim(found.rest), mac.replacements, f.caps) :
                LET autov  == ReplaceAutoVars(replaced, 1, f.auto_vars, max_temp_var)
                    parsed == InstructionParse(autov.text, line_num)
                    m      == FirstMatch(macros, autov.text)
                    upper  == SubSeq(frames, 1, Len(frames) - 1)
                    after  == [f EXCEPT !.next = @ + 1,
                                        !.auto_labels = autol.auto_labels,
                                        !.auto_vars = autov.auto_vars]
                IN  /\ labels' = found.labels
                    /\ max_temp_var' = autov.max_temp_var
                    /\ IF parsed.res = "err" THEN
                         /\ Fail(parsed.err)
                         /\ UNCHANGED <<line_num, instructions, frames>>
                       ELSE IF parsed.res = "some" THEN
                         /\ instructions' = Append(instructions, parsed.ins)
                         /\ Continue(Append(upper, after))
                         /\ UNCHANGED <<phase, error>>
                       ELSE IF m # 0 THEN
                         /\ Continue(Append(Append(upper, after),
                                            NewFrame(m, Captures(macros[m].pattern,
                                                                 autov.text).caps)))
                         /\ UNCHANGED <<phase, error, instructions>>
                       ELSE
                         /\ Continue(Append(upper, after))
                         /\ UNCHANGED <<phase, error, instructions>>
  /\ UNCHANGED <<file, current_macro, macros, machine>>

\* Ok(program): every line has been processed.
Finish ==
  /\ phase = "assemble"
  /\ frames = << >>
  /\ line_num = Len(Lines)
  /\ phase' = "assembled"
  /\ UNCHANGED <<file, asm, machine>>

\* ------------------------------------------------------------------------
\* The machine (machine.rs)
\* ------------------------------------------------------------------------

\* x[n - 1] with n = 0: the index underflows and the access panics.
Panics(var) == var.tag \in {"X", "Z"} /\ var.n = 0

\* State::get_var, for a variable whose access does not panic.
GetVar(sx, sz, sy, var) ==
  CASE var.tag = "X" -> IF var.n <= Len(sx) THEN sx[var.n] ELSE 0
    [] var.tag = "Z" -> IF var.n <= Len(sz) THEN sz[var.n] ELSE 0
    [] OTHER -> sy

\* The slots pushed while growing take the value written, not 0.
StoreFillsValue(v, n, value) ==
  [i \in 1..(IF n > Len(v) THEN n ELSE Len(v)) |->
     IF i = n THEN value ELSE IF i <= Len(v) THEN v[i] ELSE value]

\* while n > v.len() { v.push(0) }; v[n - 1] = value
Store(v, n, value) ==
  [i \in 1..(IF n > Len(v) THEN n ELSE Len(v)) |->
     IF i = n THEN value ELSE IF i <= Len(v) THEN v[i] ELSE 0]

\* State::set_var, for a variable whose access does not panic: the new
\* x, z and y.
SetVar(sx, sz, sy, var, value) ==
  CASE var.tag = "X" -> [x |-> Store(sx, var.n, value), z |-> sz, y |-> sy]
    [] var.tag = "Z" -> [x |-> sx, z |-> Store(sz, var.n, value), y |-> sy]
    [] OTHER -> [x |-> sx, z |-> sz, y |-> value]

\* The test val > 0 left out: Decrement always stores val - 1.
DecStoresAlways(val) == TRUE

\* The value Decrement stores, and whether it stores at all.
DecStores(val) == val > 0

DecValue(val) == val - 1

\* A jump to an undefined label falling through to the next instruction.
JumpTargetFallThrough(to) == IF to \in DOMAIN labels THEN labels[to] ELSE pc + 1

\* A jump to an undefined label landing one past the instruction count.
JumpTargetPastEnd(to) == IF to \in DOMAIN labels THEN labels[to] ELSE Len(instructions) + 1

\* The pc a taken jump sets: labels.get(to).unwrap_or(&instructions.len())
JumpTarget(to) == IF to \in DOMAIN labels THEN labels[to] ELSE Len(instructions)

\* The instruction step() fetches.
Fetched == instructions[pc + 1]

\* main: State::from_vars(args), Machine::new
MachineNew ==
  /\ phase = "assembled"
  /\ args' \in Inputs
  /\ x' = args'
  /\ z' = << >>
  /\ y' = 0
  /\ pc' = 0
  /\ steps' = 0
  /\ phase' = "running"
  /\ UNCHANGED <<file, asm>>

\* Print and State: the value, or the registers, are written out; no register
\* changes and the pc moves to the next instruction.
EmitResult == [regs |-> [x |-> x, z |-> z, y |-> y], pc |-> pc + 1]

\* The registers and the pc after step() ran the instruction ins.
StepResult(ins) ==
  LET val   == GetVar(x, z, y, ins.var)
      same  == [x |-> x, z |-> z, y |-> y]
  IN  CASE ins.op = "Increment" ->
             [regs |-> SetVar(x, z, y, ins.var, val + 1), pc |-> pc + 1]
        [] ins.op = "Decrement" ->
             [regs |-> IF DecStores(val) THEN SetVar(x, z, y, ins.var, DecValue(val))
                       ELSE same,
              pc |-> pc + 1]
        [] ins.op = "JumpNonZero" ->
             [regs |-> same, pc |-> IF val > 0 THEN JumpTarget(ins.to) ELSE pc + 1]
        [] ins.op \in {"Print", "State"} -> EmitResult
        [] OTHER -> [regs |-> same, pc |-> pc + 1]

\* Machine::step: nothing happens when there is no instruction at the pc.
StepOutcome ==
  IF pc < Len(instructions)
  THEN StepResult(Fetched)
  ELSE [regs |-> [x |-> x, z |-> z, y |-> y], pc |-> pc]

\* One turn of the loop of Machine::run: step() on the fetched instruction.
Step ==
  /\ phase = "running"
  /\ pc < Len(instructions)
  /\ steps < MaxSteps
  /\ steps' = steps + 1
  /\ IF Fetched.op \in {"Increment", "Decrement", "JumpNonZero"} /\ Panics(Fetched.var)
     THEN /\ phase' = "panicked"
          /\ UNCHANGED <<x, z, y, pc>>
     ELSE /\ x' = StepOutcome.regs.x
          /\ z' = StepOutcome.regs.z
          /\ y' = StepOutcome.regs.y
          /\ pc' = StepOutcome.pc
          /\ UNCHANGED phase
  /\ UNCHANGED <<file, asm, args>>

\* Machine::run returns: the pc is past the last instruction.
Return ==
  /\ phase = "running"
  /\ pc >= Len(instructions)
  /\ phase' = "halted"
  /\ UNCHANGED <<file, asm, machine>>

Next ==
  \/ PreScan
  \/ SkipLine
  \/ DirectiveDef
  \/ DirectiveEnd
  \/ DirectiveUnknown
  \/ BodyLine
  \/ ParseLine
  \/ ExpandLine
  \/ Finish
  \/ MachineNew
  \/ Step
  \/ Return

Spec == Init /\ [][Next]_vars

\* ------------------------------------------------------------------------
\* Properties
\* ------------------------------------------------------------------------

Range(f) == {f[k] : k \in DOMAIN f}

Assembled == phase \in {"assembled", "running", "halted", "panicked"}

\* Every (group, number) the given raw lines write.
LiteralLabelsOf(lines) ==
  UNION {{LabelNew(p[1], p[2]) : p \in LabelsIn(lines[i])} : i \in 1..Len(lines)}

PrologueLiteralLabels == LiteralLabelsOf(PROLOGUE)

\* Every (group, number) the raw lines of prologue and file write.
LiteralLabels == PrologueLiteralLabels \cup LiteralLabelsOf(file)

GeneratedDistinct ==
  \A i, j \in 1..Len(generated) : i # j => generated[i] # generated[j]

GeneratedNotLiteral ==
  \A i \in 1..Len(generated) : generated[i] \notin LiteralLabels

RedefinedError(label) ==
  phase = "failed" /\ error.message = "Redefined label " \o LabelFmt(label)

\* C1, as amended: every label allocated for an auto-label token differs from
\* every label allocated before it and from every label written in the raw
\* source; a redefinition error names a generated label only when the
\* expansion that allocated the label binds it a second time, that is when
\* one macro body carries the same auto-label token as the leading label of
\* two of its lines.
C1_LabelHygiene ==
  /\ GeneratedDistinct
  /\ GeneratedNotLiteral
  /\ \A i \in 1..Len(generated) :
       RedefinedError(generated[i]) =>
         /\ frames # << >>
         /\ generated[i] \in Range(frames[Len(frames)].auto_labels)

\* C1 as stated: the allocated labels are distinct from each other and from
\* the literal ones, and no redefinition error is ever raised on a generated
\* label.
C1_Original ==
  /\ GeneratedDistinct
  /\ GeneratedNotLiteral
  /\ \A i \in 1..Len(generated) : ~RedefinedError(generated[i])

\* Multiplication (which expands addition, which expands copy) has been
\* expanded twice in one assembly.
C1_Witness ==
  /\ file = <<"y <- x1 * x2", "z1 <- x1 * x2">>
  /\ phase = "assembled"
  /\ Len(generated) > 20

\* C2: a temp variable allocated for an auto temp token has an index
\* strictly greater than the index of every temp variable of the lines
\* assembled so far, whoever wrote them.
C2_TempHygiene ==
  [][\A n \in (max_temp_var + 1)..max_temp_var' :
       \A i \in 1..Len(instructions) :
         instructions[i].var.tag = "Z" => instructions[i].var.n < n]_vars

\* C3: execution never fails: no step of the machine panics.
C3_NeverFails == phase # "panicked"

\* C4: an x or z token is accepted only with a positive index, so no
\* assembled instruction names x0 or z0.
C4_PositiveIndex ==
  \A i \in 1..Len(instructions) :
    instructions[i].var.tag \in {"X", "Z"} => instructions[i].var.n >= 1

RegistersNonNegative ==
  /\ y >= 0
  /\ \A i \in 1..Len(x) : x[i] >= 0
  /\ \A i \in 1..Len(z) : z[i] >= 0

\* C5: a Decrement of a register that holds 0 leaves it at 0, one of a
\* register that holds n > 0 leaves it at n - 1, and no register is ever
\* negative.
C5_DecrementSaturates ==
  /\ [][(/\ phase = "running"
         /\ phase' = "running"
         /\ steps' = steps + 1
         /\ Fetched.op = "Decrement")
        => LET old == GetVar(x, z, y, Fetched.var)
               new == GetVar(x', z', y', Fetched.var)
           IN  /\ old = 0 => new = 0
               /\ old > 0 => new = old - 1]_vars
  /\ []RegistersNonNegative

\* A Decrement of y has run while y held 0.
C5_Witness ==
  /\ phase = "running"
  /\ steps = 1
  /\ pc = 1
  /\ instructions[1] = Decrement(Y)
  /\ y = 0

\* C6: a JumpNonZero that is taken to a label absent from the label table
\* sets the pc to the instruction count, raises nothing and changes no
\* register; at that pc run() takes no further step and returns.
C6_UndefinedJumpHalts ==
  /\ [][(/\ phase = "running"
         /\ steps' = steps + 1
         /\ Fetched.op = "JumpNonZero"
         /\ ~Panics(Fetched.var)
         /\ GetVar(x, z, y, Fetched.var) > 0
         /\ Fetched.to \notin DOMAIN labels)
        => /\ pc' = Len(instructions)
           /\ phase' = "running"
           /\ x' = x /\ z' = z /\ y' = y]_vars
  /\ [](phase = "running" /\ pc = Len(instructions) => ENABLED Return /\ ~ENABLED Step)

\* The jump to the undefined B9 was taken: run() returned without running
\* the increment of y that follows the jump.
C6_Witness ==
  /\ file = <<"y <- y - 1", "x1 <- x1 - 1", "if x1 != 0 goto B9", "y <- y + 1">>
  /\ phase = "halted"
  /\ steps = 3
  /\ pc = 4
  /\ y = 0

\* The line in which parse_line or expand_macro looks for a leading label.
LabelLine ==
  IF frames # << >>
  THEN ReplaceAutoLabels(macros[frames[Len(frames)].m].instructions[frames[Len(frames)].next],
                         1, frames[Len(frames)].auto_labels, max_labels).text
  ELSE CurLine

\* parse_line or expand_macro is about to assemble a line.
Assembling ==
  /\ phase = "assemble"
  /\ \/ frames # << >>
     \/ AtLine /\ ~IsSkipped(CurLine) /\ ~IsDirective(CurLine) /\ current_macro = << >>

\* The label a line defines, as a set: empty when it defines none.
DefinedLabel(line) ==
  IF LeadingLabelLen(line) > 0
     /\ LabelParse(SubSeq(line, 2, LeadingLabelLen(line) - 1), 0).ok
  THEN {LabelParse(SubSeq(line, 2, LeadingLabelLen(line) - 1), 0).val}
  ELSE {}

\* C7, as amended: when a top-level line, or a template line of a macro
\* being expanded, starts with a label whose group and number the label
\* table already binds, assembly is rejected at that line with a
\* label-redefinition error.  (Labels of macro bodies are bound only when
\* the macro is expanded.)
C7_Redefinition ==
  [][(Assembling /\ \E l \in DefinedLabel(LabelLine) : l \in DOMAIN labels)
     => /\ phase' = "failed"
        /\ \E l \in DefinedLabel(LabelLine) :
             error' = ParseError("Redefined label " \o LabelFmt(l), line_num)]_vars

\* Two of the given raw lines define the same label.
DuplicateIn(lines) ==
  \E i, j \in 1..Len(lines) :
    i < j /\ DefinedLabel(lines[i]) # {} /\ DefinedLabel(lines[i]) = DefinedLabel(lines[j])

PrologueDefined == UNION {DefinedLabel(PROLOGUE[i]) : i \in 1..Len(PROLOGUE)}

PrologueDuplicate == DuplicateIn(PROLOGUE)

\* Two raw lines of prologue and file, top-level or inside a macro body,
\* define the same label.
DuplicateDefinition ==
  \/ PrologueDuplicate
  \/ DuplicateIn(file)
  \/ \E i \in 1..Len(file) : DefinedLabel(file[i]) \cap PrologueDefined # {}

\* C7 as stated: a source that defines a label twice, anywhere, is rejected.
C7_Original == Assembled => ~DuplicateDefinition

\* A macro invoked twice defined A1 twice and assembly was rejected.
C7_Witness ==
  /\ file = <<"@def lab", "[A1] nop", "@end", "lab", "lab">>
  /\ phase = "failed"
  /\ error = ParseError("Redefined label A1", Len(PROLOGUE) + 4)

Var(name) == VariableParse(name, 0).val

\* C8: the expansion of the copy macro v1 <- v2, v1 and v2 distinct, runs to
\* completion and ends with v1 and v2 both equal to the initial value of v2.
C8_Copy ==
  \A v1, v2 \in CopyNames :
    (v1 # v2 /\ file = <<v1 \o " <- " \o v2>>) =>
      /\ phase \notin {"failed", "panicked"}
      /\ (phase = "running" /\ pc < Len(instructions)) => steps < MaxSteps
      /\ phase = "halted" =>
           /\ GetVar(x, z, y, Var(v1)) = GetVar(args, << >>, 0, Var(v2))
           /\ GetVar(x, z, y, Var(v2)) = GetVar(args, << >>, 0, Var(v2))

\* y <- x1 has run to completion from x1 = 3.
C8_Witness ==
  /\ file = <<"y <- x1">>
  /\ phase = "halted"
  /\ args = <<3>>
  /\ y = 3
  /\ x = <<3>>

\* C9: an unknown-directive error reports the line of the user's file the
\* directive is on.
C9_UserLineNumber ==
  (phase = "failed" /\ error.message = "Unknown directive") =>
    /\ error.line_number < Len(file)
    /\ IsDirective(file[error.line_number + 1])
    /\ ~StartsWith(file[error.line_number + 1], "@def")
    /\ ~StartsWith(file[error.line_number + 1], "@end")

\* C10: at most one definition is open; @def with a definition open, @end
\* with none open and every other directive abort assembly; @def with none
\* open opens one and @end with one open appends exactly that macro to the
\* macro list and closes it; nothing else changes the macro list.
C10_Directives ==
  /\ [][(AtLine /\ IsDirective(CurLine)) =>
          IF StartsWith(CurLine, "@def")
          THEN IF current_macro # << >>
               THEN phase' = "failed" /\ error'.line_number = line_num
               ELSE /\ phase' = "assemble"
                    /\ Len(current_macro') = 1
                    /\ current_macro'[1].instructions = << >>
                    /\ macros' = macros
          ELSE IF StartsWith(CurLine, "@end")
          THEN IF current_macro = << >>
               THEN phase' = "failed" /\ error'.line_number = line_num
               ELSE /\ phase' = "assemble"
                    /\ macros' = Append(macros, current_macro[1])
                    /\ current_macro' = << >>
          ELSE phase' = "failed" /\ error'.line_number = line_num]_vars
  /\ [][macros' # macros => AtLine /\ StartsWith(CurLine, "@end")]_vars
  /\ [](Len(current_macro) <= 1)

\* A macro of the user's file was defined by a matched @def ... @end and the
\* definition is closed.
C10_Witness ==
  /\ file = <<"@def twice {v}", "    v <- v + 1", "    v <- v + 1", "@end", "twice y", "twice x1">>
  /\ line_num = Len(PROLOGUE) + 4
  /\ current_macro = << >>
  /\ macros[Len(macros)].instructions = <<"    v <- v + 1", "    v <- v + 1">>

\* C11: a source that ends while a macro definition is still open is not
\* assembled: from_file never returns a program with a definition open.
C11_UnclosedDefFails == phase = "assembled" => current_macro = << >>

\* parse_line is about to assemble a line that, its leading label stripped,
\* is no primitive and matches no macro.
UnmatchedTopLevel ==
  /\ AtLine
  /\ ~IsSkipped(CurLine)
  /\ ~IsDirective(CurLine)
  /\ current_macro = << >>
  /\ LET found == FindLabel(CurLine, Len(instructions), labels, line_num)
     IN  /\ found.ok
         /\ InstructionParse(Trim(found.rest), line_num).res = "none"
         /\ FirstMatch(macros, Trim(found.rest)) = 0

\* C12: in the outer pass a line outside any definition that is no primitive
\* and matches no macro aborts assembly with the error of that line; after
\* an error no line is processed and no program is returned.
C12_UnmatchedAborts ==
  /\ [][UnmatchedTopLevel =>
          /\ phase' = "failed"
          /\ error' = ParseError("Expression "
                                  \o Trim(FindLabel(CurLine, Len(instructions), labels,
                                                    line_num).rest)
                                  \o " is not a valid instruction", line_num)
          /\ instructions' = instructions
          /\ line_num' = line_num]_vars
  /\ [][phase # "failed"]_vars

\* The second line, a label and a text nothing matches, stopped assembly.
C12_Witness ==
  /\ file = <<"nop", "[A1] garbage", "nop">>
  /\ phase = "failed"
  /\ line_num = Len(PROLOGUE) + 1
  /\ error = ParseError("Expression garbage is not a valid instruction", Len(PROLOGUE) + 1)

\* step() is run on the fetched instruction.
Stepping == phase = "running" /\ steps' = steps + 1

\* The fetched instruction names an x or z register past the end of its
\* sequence.
BeyondLength(var) ==
  \/ var.tag = "X" /\ var.n > Len(x)
  \/ var.tag = "Z" /\ var.n > Len(z)

\* step() calls set_var for the fetched instruction.
Writes ==
  /\ Stepping
  /\ ~Panics(Fetched.var)
  /\ \/ Fetched.op = "Increment"
     \/ Fetched.op = "Decrement" /\ GetVar(x, z, y, Fetched.var) > 0

\* The frame of a write of slot k to the sequence that is v before and w
\* after it.
Grown(v, w, k) ==
  /\ Len(w) >= k
  /\ Len(w) >= Len(v)
  /\ \A i \in (Len(v) + 1)..Len(w) : i # k => w[i] = 0
  /\ \A i \in 1..Len(v) : i # k => w[i] = v[i]

\* C13: a read of X(k) or Z(k) past the end of the sequence gives 0 and
\* leaves lengths and contents as they are; a write of X(k) or Z(k) grows
\* the sequence to at least k, the new slots other than k holding 0, and
\* leaves the older slots other than k, the other sequence and Y as they are.
C13_Storage ==
  /\ [](phase = "running" =>
          /\ \A k \in (Len(x) + 1)..(Len(x) + 2) : GetVar(x, z, y, X(k)) = 0
          /\ \A k \in (Len(z) + 1)..(Len(z) + 2) : GetVar(x, z, y, Z(k)) = 0)
  /\ [][(Stepping /\ BeyondLength(Fetched.var)) =>
          /\ Fetched.op \in {"Decrement", "JumpNonZero"} =>
                x' = x /\ z' = z /\ y' = y /\ pc' = pc + 1
          /\ Fetched.op = "Increment" =>
                GetVar(x', z', y', Fetched.var) = 1]_vars
  /\ [][Writes =>
          /\ Fetched.var.tag = "X" =>
                Grown(x, x', Fetched.var.n) /\ z' = z /\ y' = y
          /\ Fetched.var.tag = "Z" =>
                Grown(z, z', Fetched.var.n) /\ x' = x /\ y' = y]_vars

\* With no arguments, x2 and z2 were read past the end of their sequences
\* and then z3 was written: z grew from length 0 to 3, slots 1 and 2 at 0.
C13_Witness ==
  /\ file = <<"x2 <- x2 - 1", "if z2 != 0 goto A1", "z3 <- z3 + 1", "x2 <- x2 + 1">>
  /\ phase = "running"
  /\ steps = 3
  /\ pc = 3
  /\ x = << >>
  /\ z = <<0, 0, 1>>

Max(a, b) == IF a >= b THEN a ELSE b

\* The registers a step can tell apart: Y and the x and z registers up to
\* one past the longer sequence, before or after the step.
Registers ==
  LET n == Max(Max(Len(x), Len(z)), Max(Len(x'), Len(z'))) + 1
  IN  {Y} \cup {X(k) : k \in 1..n} \cup {Z(k) : k \in 1..n}

\* The fetched instruction is a JumpNonZero whose register is not 0.
JumpTaken ==
  /\ Fetched.op = "JumpNonZero"
  /\ ~Panics(Fetched.var)
  /\ GetVar(x, z, y, Fetched.var) > 0

\* C14: Increment{v} and Decrement{v} change no register but v; the other
\* instructions change no register; every instruction but a taken
\* JumpNonZero moves the pc on by exactly 1, and a taken JumpNonZero to a
\* defined label sets the pc to the index the label table holds for it.
C14_StepFrame ==
  [][Stepping =>
       /\ \A w \in Registers :
            (Fetched.op \in {"Increment", "Decrement"} => w # Fetched.var) =>
              GetVar(x', z', y', w) = GetVar(x, z, y, w)
       /\ ~JumpTaken => pc' = pc + 1
       /\ (JumpTaken /\ Fetched.to \in DOMAIN labels) => pc' = labels[Fetched.to]]_vars

\* expand_macro is at a template line that, after every substitution, is no
\* primitive and matches no macro.
UnmatchedTemplate ==
  /\ phase = "assemble"
  /\ frames # << >>
  /\ LET f     == frames[Len(frames)]
         mac   == macros[f.m]
         autol == ReplaceAutoLabels(mac.instructions[f.next], 1, f.auto_labels, max_labels)
         found == FindLabel(autol.text, Len(instructions), labels, line_num)
     IN  /\ found.ok
         /\ \A replaced \in PlaceholderResults(Trim(found.rest), mac.replacements, f.caps) :
              LET text == ReplaceAutoVars(replaced, 1, f.auto_vars, max_temp_var).text
              IN  /\ InstructionParse(text, line_num).res = "none"
                  /\ FirstMatch(macros, text) = 0

\* User files whose macros carry template lines that nothing matches.
DroppedLineFiles ==
  { <<"@def bad {v}", "v <- v + 1", "garbage", "[B2] more garbage", "@end", "bad y",
      "if y != 0 goto B2">>,
    <<"@def bad {v}", "v <- v + 1", "[B2] garbage", "@end", "@def outer {v}", "bad v", "junk v",
      "@end", "outer y", "if y != 0 goto B2">> }

\* C15: at any depth of expansion a template line that after substitution
\* is no primitive and matches no macro is passed over without an error:
\* no instruction is appended, the label the line defines stays bound, the
\* expansion goes on with the next template line (or returns after the
\* last), and the assembly of such files succeeds.
C15_DroppedLine ==
  /\ [][UnmatchedTemplate =>
          LET f     == frames[Len(frames)]
              mac   == macros[f.m]
              autol == ReplaceAutoLabels(mac.instructions[f.next], 1, f.auto_labels,
                                         max_labels)
              found == FindLabel(autol.text, Len(instructions), labels, line_num)
          IN  /\ phase' = "assemble"
              /\ error' = error
              /\ instructions' = instructions
              /\ labels' = found.labels
              /\ \A l \in DefinedLabel(autol.text) : labels'[l] = Len(instructions)
              /\ IF f.next < Len(mac.instructions)
                 THEN /\ Len(frames') = Len(frames)
                      /\ frames'[Len(frames)].m = f.m
                      /\ frames'[Len(frames)].next = f.next + 1
                 ELSE Len(frames') < Len(frames)]_vars
  /\ [](file \in DroppedLineFiles => phase # "failed")

\* The nested expansion dropped `[B2] garbage` at depth 2 and `junk y` at
\* depth 1 and the file assembled, B2 bound to the position after the
\* increment.
C15_Witness ==
  /\ file = <<"@def bad {v}", "v <- v + 1", "[B2] garbage", "@end", "@def outer {v}", "bad v",
              "junk v", "@end", "outer y", "if y != 0 goto B2">>
  /\ phase = "assembled"
  /\ instructions = <<Increment(Y), JumpNonZero(Y, LabelNew(1, 2))>>
  /\ labels[LabelNew(1, 2)] = 1

\* The tokens %<Group><Number> of a template line, as (group, number).
AutoTokensIn(line) ==
  {LabelNew(GroupIndex(At(line, i + 1)),
            ParseUsize(SubSeq(line, i + 2, i + 1 + RunLen(line, i + 2, Digits)))) :
     i \in {j \in 1..Len(line) :
              /\ At(line, j) = "%"
              /\ j + 1 <= Len(line)
              /\ At(line, j + 1) \in GroupChars
              /\ RunLen(line, j + 2, Digits) > 0}}

\* The line with every token replaced by the label a memo holds for it.
RECURSIVE WithLabels(_, _, _)
WithLabels(line, i, memo) ==
  IF i > Len(line) THEN ""
  ELSE IF /\ At(line, i) = "%"
          /\ i + 1 <= Len(line)
          /\ At(line, i + 1) \in GroupChars
          /\ RunLen(line, i + 2, Digits) > 0
  THEN LET k == RunLen(line, i + 2, Digits)
       IN  LabelFmt(memo[LabelNew(GroupIndex(At(line, i + 1)),
                                  ParseUsize(SubSeq(line, i + 2, i + 1 + k)))])
             \o WithLabels(line, i + 2 + k, memo)
  ELSE At(line, i) \o WithLabels(line, i + 1, memo)

Injective(f) == \A a, b \in DOMAIN f : a # b => f[a] # f[b]

\* C16: in one expansion the first occurrence of a token %<G><N> moves the
\* counter of group G on by exactly one and stands for the label (G, new
\* counter); every later occurrence of the token stands for the same label
\* and leaves the counter alone; different tokens stand for different
\* labels; a nested expansion starts with a memo of its own and shares no
\* label with an expansion around it.
C16_AutoLabelMemo ==
  /\ [][(phase = "assemble" /\ frames # << >>) =>
          LET f     == frames[Len(frames)]
              line  == macros[f.m].instructions[f.next]
              memo  == f.auto_labels
              first == AutoTokensIn(line) \ DOMAIN memo
              autol == ReplaceAutoLabels(line, 1, memo, max_labels)
              after == autol.auto_labels
          IN  /\ \A g \in 0..4 :
                   max_labels'[g] = max_labels[g] + Cardinality({t \in first : t % 5 = g})
              /\ DOMAIN after = DOMAIN memo \cup AutoTokensIn(line)
              /\ \A t \in DOMAIN memo : after[t] = memo[t]
              /\ \A t \in first :
                   /\ after[t] % 5 = t % 5
                   /\ (after[t] \div 5) \in (max_labels[t % 5] + 1)..max_labels'[t % 5]
              /\ Injective(after)
              /\ autol.text = WithLabels(line, 1, after)
              /\ f.next < Len(macros[f.m].instructions) =>
                   frames'[Len(frames)].auto_labels = after
              /\ \A d \in 1..(Len(frames) - 1) :
                   d <= Len(frames') => frames'[d].auto_labels = frames[d].auto_labels]_vars
  /\ [][Len(frames') > Len(frames) => frames'[Len(frames')].auto_labels = << >>]_vars
  /\ [](\A d \in 1..Len(frames) :
          /\ Injective(frames[d].auto_labels)
          /\ \A e \in 1..Len(frames) :
               d # e => Range(frames[d].auto_labels) \cap Range(frames[e].auto_labels) = {})

\* The macro loop, whose body names %A1 twice and %B1 once, was expanded
\* twice: each expansion bound one A label, used by its own jump, and the
\* second expansion took the next number.
C16_Witness ==
  /\ file = <<"@def loop {v}", "[%A1] v <- v - 1", "if v != 0 goto %A1", "[%B1] nop", "@end",
              "loop x1", "[A5] loop x2", "[B9] nop">>
  /\ phase = "assembled"
  /\ instructions[2] = JumpNonZero(X(1), LabelNew(0, 6))
  /\ labels[LabelNew(0, 6)] = 0
  /\ instructions[5] = JumpNonZero(X(2), LabelNew(0, 7))
  /\ labels[LabelNew(0, 7)] = 3

\* The macros whose pattern matches a line.
Matching(text) == {k \in 1..Len(macros) : Captures(macros[k].pattern, text).ok}

\* What the step does with a line to assemble, depth calls of expand_macro
\* staying below it: a primitive is appended and nothing is expanded; failing
\* that, the matching macro defined first, and only that one, is expanded.
Dispatched(text, depth) ==
  LET parsed == InstructionParse(text, line_num)
  IN  /\ parsed.res = "some" =>
           /\ instructions' = Append(instructions, parsed.ins)
           /\ Len(frames') <= depth
      /\ (parsed.res = "none" /\ Matching(text) # {}) =>
           LET k == CHOOSE k \in Matching(text) : \A j \in Matching(text) : k <= j
           IN  /\ instructions' = instructions
               /\ Len(frames') <= depth + 1
               /\ Len(macros[k].instructions) > 0 =>
                    /\ Len(frames') = depth + 1
                    /\ frames'[depth + 1].m = k
                    /\ frames'[depth + 1].next = 1
                    /\ frames'[depth + 1].caps = Captures(macros[k].pattern, text).caps

\* C17: for every line assembled, at top level or in an expansion, a
\* primitive parse comes first; only when it gives nothing are the macros
\* tried, in the order of their definition, and the first that matches, and
\* no other, is expanded.
C17_DispatchOrder ==
  /\ [][(/\ AtLine /\ ~IsSkipped(CurLine) /\ ~IsDirective(CurLine) /\ current_macro = << >>
         /\ FindLabel(CurLine, Len(instructions), labels, line_num).ok)
        => Dispatched(Trim(FindLabel(CurLine, Len(instructions), labels, line_num).rest),
                      0)]_vars
  /\ [][(phase = "assemble" /\ frames # << >>) =>
          LET f     == frames[Len(frames)]
              mac   == macros[f.m]
              autol == ReplaceAutoLabels(mac.instructions[f.next], 1, f.auto_labels,
                                         max_labels)
              found == FindLabel(autol.text, Len(instructions), labels, line_num)
          IN  found.ok =>
                \E replaced \in PlaceholderResults(Trim(found.rest), mac.replacements,
                                                   f.caps) :
                  Dispatched(ReplaceAutoVars(replaced, 1, f.auto_vars, max_temp_var).text,
                             Len(frames))]_vars

\* `y <- 0`, which the zeroing macro (the fourth defined) and the copy macro
\* (the fifth) both match, is being expanded by the zeroing macro.
C17_Witness ==
  /\ file = <<"[A7] y <- 0", "goto E3", "y <- y + 1", "[E3] if x1 = 0 goto A7">>
  /\ line_num = Len(PROLOGUE)
  /\ Matching("y <- 0") = {4, 5}
  /\ Len(frames) = 1
  /\ frames[1].m = 4
  /\ frames[1].caps = <<"y">>

\* C18: compiling a header records for each placeholder name the group of
\* its first occurrence, so a line matched by a header that repeats a name
\* is expanded with the text captured at the first occurrence.
C18_FirstGroup ==
  /\ [][(/\ AtLine /\ IsDirective(CurLine) /\ StartsWith(CurLine, "@def")
         /\ current_macro = << >>)
        => LET names == MacroNames(Trim(Drop(CurLine, 4)), 1)
               repl  == current_macro'[1].replacements
           IN  \A nm \in DOMAIN repl :
                 /\ names[repl[nm] + 1] = nm
                 /\ \A j \in 1..repl[nm] : names[j] # nm]_vars
  /\ []((file = <<"@def pair {a} {a}", "a <- a + 1", "@end", "pair x1 x2">>
          /\ phase = "assembled")
        => instructions = <<Increment(X(1))>>)

\* C19: a leading [Name] of a top-level line or of a template line is bound
\* to the index the next assembled instruction receives, that is to the
\* instruction count at the line; every value of the label table is at most
\* the instruction count, during assembly and after it; a binding, once
\* made, is never changed.
C19_LabelBinding ==
  /\ [][(Assembling /\ FindLabel(LabelLine, Len(instructions), labels, line_num).ok) =>
          \A l \in DefinedLabel(LabelLine) :
            /\ l \in DOMAIN labels'
            /\ labels'[l] = Len(instructions)
            /\ Len(instructions') > Len(instructions) =>
                 instructions'[labels'[l] + 1] = instructions'[Len(instructions')]]_vars
  /\ [][\A l \in DOMAIN labels' \ DOMAIN labels :
          /\ Assembling
          /\ l \in DefinedLabel(LabelLine)
          /\ labels'[l] = Len(instructions)]_vars
  /\ [](\A l \in DOMAIN labels : labels[l] <= Len(instructions))
  /\ [][\A l \in DOMAIN labels : l \in DOMAIN labels' /\ labels'[l] = labels[l]]_vars

\* A1, leading a line that a macro expands, is bound to the first
\* instruction of the expansion (index 3) and B1 to the nop (index 6).
C19_Witness ==
  /\ file = <<"goto A1", "y <- y + 1", "[A1] goto B1", "y <- y + 1", "[B1] nop">>
  /\ phase = "assembled"
  /\ Len(instructions) = 7
  /\ labels[LabelNew(0, 1)] = 3
  /\ instructions[4].op = "Increment"
  /\ instructions[5] = JumpNonZero(instructions[4].var, LabelNew(1, 1))
  /\ labels[LabelNew(1, 1)] = 6
  /\ instructions[7] = Nop

\* C20: the pc of every reachable machine state lies between 0 and the
\* instruction count; at the instruction count the state is stable: step()
\* changes neither the pc nor a register, and nothing else does; run()
\* calls step() only while the pc is below the instruction count and
\* returns at the instruction count.
C20_PcRange ==
  /\ [](0 <= pc /\ pc <= Len(instructions))
  /\ []((phase \in {"running", "halted"} /\ pc = Len(instructions)) =>
          StepOutcome = [regs |-> [x |-> x, z |-> z, y |-> y], pc |-> pc])
  /\ [][(phase \in {"running", "halted"} /\ pc = Len(instructions)) =>
          pc' = pc /\ x' = x /\ z' = z /\ y' = y]_vars
  /\ [][steps' # steps => phase = "assembled" \/ pc < Len(instructions)]_vars
  /\ [](phase = "halted" => pc = Len(instructions))

\* Two gotos were taken to defined labels and run() returned with the pc at
\* the instruction count.
C20_Witness ==
  /\ file = <<"goto A1", "y <- y + 1", "[A1] goto B1", "y <- y + 1", "[B1] nop">>
  /\ phase = "halted"
  /\ steps = 5
  /\ pc = 7
  /\ pc = Len(instructions)
  /\ y = 0

\* C21: the line expand_macro makes of a template line is the same for
\* every order in which the placeholders are substituted, so that a source
\* always assembles to the same instructions.
C21_OrderIndependent ==
  (phase = "assemble" /\ frames # << >>) =>
    LET f     == frames[Len(frames)]
        mac   == macros[f.m]
        autol == ReplaceAutoLabels(mac.instructions[f.next], 1, f.auto_labels, max_labels)
        found == FindLabel(autol.text, Len(instructions), labels, line_num)
    IN  found.ok =>
          Cardinality(PlaceholderResults(Trim(found.rest), mac.replacements, f.caps)) = 1

====
